---- MODULE Spec2Model ----
(***************************************************************************)
(* The exam session controller of vce-trainer (src/exam_player.py,         *)
(* class ExamPlayer) over the exam model of src/vce_parser.py.             *)
(*                                                                         *)
(* Python values are modelled as follows.                                  *)
(*   Optional[T]      None is <<>>, a value v is <<v>>                     *)
(*   List[int]        a sequence of integers                               *)
(*   Dict[int, V]     a function whose domain is a set of keys <<"int",p>> *)
(*   Dict[str, V]     as read back from JSON: keys <<"str", p>>              *)
(*   a return value   a record [kind, b, n] (see the result constructors)  *)
(*   a session file   the dict json.load returns for it                    *)
(***************************************************************************)
EXTENDS Integers, Sequences, FiniteSets, TLC

\* Largest number of questions of an exam the model loads.
MaxQuestions == 2

\* Clock ticks per second: time.time() is cut to whole seconds for the session
\* id, datetime.now() keeps the fraction.
TicksPerSecond == 2

\* Last value of the clock.
MaxClock == 1

\* Every Exam the parser builds has passing_score=70.
passing_score == 70

\* The questions of the fallback pool have four answer options each.
option_count == 4

None == <<>>
Some(v) == <<v>>

\* A key of ExamSession.answers as the controller writes it: the int question_num.
IntKey(p) == <<"int", p>>

\* A key of a dict read back from a JSON file: the str of the question_num.
StrKey(p) == <<"str", p>>

\* set(xs) of a Python list.
ToSet(xs) == {xs[i] : i \in DOMAIN xs}

\* list(range(n)).
Range(n) == [i \in 1..n |-> i - 1]

\* xs[:k] for 0 <= k.
Prefix(xs, k) == SubSeq(xs, 1, IF k < Len(xs) THEN k ELSE Len(xs))

\* The orders random.shuffle / random.sample(xs, k) can leave: every sequence of
\* k distinct elements of xs.
Samples(xs, k) ==
    {s \in [1..k -> ToSet(xs)] : \A i, j \in 1..k : i # j => s[i] # s[j]}

\* Return values.
RBool(b) == [kind |-> "bool", b |-> b, n |-> 0]
RInt(n) == [kind |-> "int", b |-> FALSE, n |-> n]
RPair(n, b) == [kind |-> "pair", b |-> b, n |-> n]
RStr(t) == [kind |-> "str", b |-> FALSE, n |-> t]
RRaise == [kind |-> "ZeroDivisionError", b |-> FALSE, n |-> 0]
RDict(d) == [kind |-> "dict", b |-> FALSE, n |-> d]
REmpty == [kind |-> "empty", b |-> FALSE, n |-> 0]
ROptional(v) == [kind |-> "Optional", b |-> FALSE, n |-> v]
RNone == [kind |-> "None", b |-> FALSE, n |-> 0]
ROSError == [kind |-> "OSError", b |-> FALSE, n |-> 0]
RAttributeError == [kind |-> "AttributeError", b |-> FALSE, n |-> 0]

VARIABLES
    exam,             \* ExamPlayer.exam
    question_order,   \* ExamPlayer.question_order
    current_session,  \* ExamPlayer.current_session, None or Some(ExamSession)
    last,             \* the last call: its name, its arguments and what it returned
    now,              \* the wall clock, in ticks of 1/TicksPerSecond second
    store,            \* the session directory: session_id |-> the JSON record of its file
    vce_file_path     \* ExamPlayer.vce_file_path, None for a player made without __init__

vars == <<exam, question_order, current_session, last, now, store, vce_file_path>>

\* The correct_answers of the i-th question (1-based) of the base pool: single
\* and multiple choice questions alternate.
CorrectOf(i) == IF i % 2 = 1 THEN <<0>> ELSE <<0, 1>>

\* The i-th Question of a parsed exam; every parser numbers the questions
\* 1, 2, ... in list order.
Question(i) ==
    [id |-> i, option_count |-> option_count, correct_answers |-> CorrectOf(i)]

\* The Exam parse_vce_file returns for a file with n questions.
Exam(n) ==
    [questions |-> [i \in 1..n |-> Question(i)],
     total_questions |-> n,
     passing_score |-> passing_score]

\* The exam files a caller can open: the file at path p yields p questions.
\* Path 0 is a text file with a title and no question; the others are files
\* whose questions come from the base pool, as many as the name announces.
FilePaths == 0..MaxQuestions

\* A seed taken from the clock.
variation_seed_clock == now

\* create_fallback_questions: "Always use seed 0 for consistent output".
variation_seed == 0

\* create_fallback_questions: expected_count questions with the ids 1, 2, ...,
\* copied from the base pool from start_index on.
create_fallback_questions(expected_count) ==
    LET start_index == variation_seed * 3
    IN [i \in 1..expected_count |->
          [Question(i) EXCEPT !.correct_answers = CorrectOf(start_index + i)]]

\* parse_vce_file(file_path): what the parser returns depends on the file only.
parse_vce_file(file_path) ==
    [questions |-> IF file_path = 0
                   THEN << >>
                   ELSE create_fallback_questions(file_path),
     total_questions |-> file_path,
     passing_score |-> passing_score]

\* A UserAnswer that is born graded.
UserAnswerGraded(question_num, answer_indices) ==
    [question_id |-> question_num,
     selected_answers |-> answer_indices,
     time_spent |-> 0,
     is_correct |-> Some(FALSE),
     is_marked |-> FALSE]

\* UserAnswer(question_id, selected_answers, time_spent=0, timestamp).
UserAnswer(question_num, answer_indices) ==
    [question_id |-> question_num,
     selected_answers |-> answer_indices,
     time_spent |-> 0,
     is_correct |-> None,
     is_marked |-> FALSE]

\* int(time.time()) at clock value t: the whole seconds.
Seconds(t) == t \div TicksPerSecond

\* ExamSession(session_id, exam_title, start_time, current_question=1).
ExamSession(session_id, start_time) ==
    [session_id |-> session_id,
     start_time |-> start_time,
     end_time |-> None,
     status |-> "in_progress",
     answers |-> << >>,
     current_question |-> 1,
     score |-> None,
     passed |-> None,
     total_time_spent |-> 0]

HasSession == current_session # None
Session == current_session[1]

Call(op, args, result) == [op |-> op, args |-> args, result |-> result]

\* ExamPlayer.__init__: the exam is parsed, no session, no question order.
Init ==
    /\ now = 0
    /\ \E file_path \in FilePaths :
         /\ vce_file_path = Some(file_path)
         /\ exam = parse_vce_file(file_path)
    /\ question_order = << >>
    /\ current_session = None
    /\ last = Call("__init__", << >>, RInt(0))
    /\ store = << >>

\* A start_new_session that ignores the question limit.
StartOrdersNoLimit(randomize_questions, max_questions, all) == {all}

\* The question orders start_new_session can set up.
StartOrders(randomize_questions, max_questions, all) ==
    IF max_questions > 0 /\ max_questions < Len(all)
    THEN IF randomize_questions
         THEN Samples(all, max_questions)
         ELSE {Prefix(all, max_questions)}
    ELSE IF randomize_questions
         THEN Samples(all, Len(all))
         ELSE {all}

start_new_session(randomize, max_questions) ==
    LET randomize_questions == FALSE
    IN \E order \in StartOrders(randomize_questions, max_questions,
                                Range(Len(exam.questions))) :
        /\ question_order' = order
        /\ exam' = [exam EXCEPT !.total_questions = Len(order)]
        /\ current_session' = Some(ExamSession(Seconds(now), now))
        /\ last' = Call("start_new_session", <<randomize, max_questions>>,
                        RStr(Seconds(now)))
        /\ UNCHANGED <<now, store, vce_file_path>>

\* A select_answer that builds a fresh record on every call.
SelectAnswersFresh(answers, question_num, answer_indices) ==
    [k \in DOMAIN answers \cup {IntKey(question_num)} |->
       IF k = IntKey(question_num)
       THEN UserAnswer(question_num, answer_indices)
       ELSE answers[k]]

\* The answers dict after select_answer.
SelectAnswers(answers, question_num, answer_indices) ==
    IF IntKey(question_num) \notin DOMAIN answers
    THEN [k \in DOMAIN answers \cup {IntKey(question_num)} |->
            IF k = IntKey(question_num)
            THEN UserAnswer(question_num, answer_indices)
            ELSE answers[k]]
    ELSE [answers EXCEPT ![IntKey(question_num)].selected_answers = answer_indices]

\* A select_answer that starts a session when there is none.
select_answer_starting(question_num, answer_indices) ==
    /\ last' = Call("select_answer", <<question_num, answer_indices>>, RBool(TRUE))
    /\ current_session' =
         Some([(IF HasSession THEN Session ELSE ExamSession(Seconds(now), now))
                 EXCEPT !.answers = SelectAnswers(@, question_num, answer_indices)])
    /\ UNCHANGED <<exam, question_order, now, store, vce_file_path>>

select_answer(question_num, answer_indices) ==
    /\ last' = Call("select_answer", <<question_num, answer_indices>>, RBool(HasSession))
    /\ IF ~HasSession
       THEN UNCHANGED current_session
       ELSE current_session' =
              Some([Session EXCEPT !.answers =
                      SelectAnswers(Session.answers, question_num, answer_indices)])
    /\ UNCHANGED <<exam, question_order, now, store, vce_file_path>>

\* Whether mark_question finds a record to mark.
CanMark(question_num) ==
    /\ HasSession
    /\ DOMAIN Session.answers # {}
    /\ IntKey(question_num) \in DOMAIN Session.answers

\* A mark_question that toggles the flag.
MarkAnswersToggle(answers, question_num) ==
    [answers EXCEPT ![IntKey(question_num)].is_marked = ~@]

\* A mark_question that flags every record of the session.
MarkAnswersAll(answers, question_num) ==
    [k \in DOMAIN answers |-> [answers[k] EXCEPT !.is_marked = TRUE]]

\* The answers dict after mark_question found the record.
MarkAnswers(answers, question_num) ==
    [answers EXCEPT ![IntKey(question_num)].is_marked = TRUE]

mark_question(question_num) ==
    /\ last' = Call("mark_question", <<question_num>>, RBool(CanMark(question_num)))
    /\ IF CanMark(question_num)
       THEN current_session' =
              Some([Session EXCEPT !.answers = MarkAnswers(Session.answers, question_num)])
       ELSE UNCHANGED current_session
    /\ UNCHANGED <<exam, question_order, now, store, vce_file_path>>

\* A next_question that wraps around to the first position.
NextPositionWrap(current_question, order) ==
    IF current_question < Len(order) THEN current_question + 1 ELSE 1

\* current_question after next_question.
NextPosition(current_question, order) ==
    IF current_question < Len(order) THEN current_question + 1 ELSE current_question

next_question ==
    /\ IF ~HasSession
       THEN /\ UNCHANGED current_session
            /\ last' = Call("next_question", << >>, RInt(1))
       ELSE LET to == NextPosition(Session.current_question, question_order)
            IN /\ current_session' = Some([Session EXCEPT !.current_question = to])
               /\ last' = Call("next_question", << >>, RInt(to))
    /\ UNCHANGED <<exam, question_order, now, store, vce_file_path>>

\* current_question after previous_question.
PreviousPosition(current_question) ==
    IF current_question > 1 THEN current_question - 1 ELSE current_question

previous_question ==
    /\ IF ~HasSession
       THEN /\ UNCHANGED current_session
            /\ last' = Call("previous_question", << >>, RInt(1))
       ELSE LET to == PreviousPosition(Session.current_question)
            IN /\ current_session' = Some([Session EXCEPT !.current_question = to])
               /\ last' = Call("previous_question", << >>, RInt(to))
    /\ UNCHANGED <<exam, question_order, now, store, vce_file_path>>

\* A range test that is off by one at the upper end.
InRangeOffByOne(question_num, order) == 1 <= question_num /\ question_num <= Len(order) + 1

\* The range test of jump_to_question.
InRange(question_num, order) == 1 <= question_num /\ question_num <= Len(order)

jump_to_question(question_num) ==
    /\ last' = Call("jump_to_question", <<question_num>>,
                    RBool(InRange(question_num, question_order)))
    /\ IF InRange(question_num, question_order) /\ HasSession
       THEN current_session' = Some([Session EXCEPT !.current_question = question_num])
       ELSE UNCHANGED current_session
    /\ UNCHANGED <<exam, question_order, now, store, vce_file_path>>

\* The questions calculate_score visits and finds answered.
Scored(questions, answers) ==
    {i \in DOMAIN questions : IntKey(questions[i].id) \in DOMAIN answers}

\* The comparison of one answer with its question.
IsCorrect(user_answer, question) ==
    ToSet(user_answer.selected_answers) = ToSet(question.correct_answers)

\* The answers dict after the loop of calculate_score.
GradedAnswers(questions, answers) ==
    [k \in DOMAIN answers |->
       IF \E i \in Scored(questions, answers) : k = IntKey(questions[i].id)
       THEN LET i == CHOOSE i \in Scored(questions, answers) : k = IntKey(questions[i].id)
            IN [answers[k] EXCEPT !.is_correct = Some(IsCorrect(answers[k], questions[i]))]
       ELSE answers[k]]

\* A count that trusts the is_correct flags left by an earlier call.
CorrectCountStale(questions, answers) ==
    Cardinality({i \in Scored(questions, answers) :
                   answers[IntKey(questions[i].id)].is_correct = Some(TRUE)})

\* correct_answers after the loop of calculate_score.
CorrectCount(questions, answers) ==
    Cardinality({i \in Scored(questions, answers) :
                   IsCorrect(answers[IntKey(questions[i].id)], questions[i])})

\* int((correct_answers / total_questions) * 100). The quotient is a float and
\* int() truncates; for 0 <= correct_answers <= 2 * total_questions and
\* total_questions < 20 the float result is the integer quotient written here.
ScorePercent(correct_answers, total_questions) ==
    (correct_answers * 100) \div total_questions

\* calculate_score on a session: the session it leaves and what it returns.
CalculateScore(session, ex, order) ==
    IF DOMAIN session.answers = {}
    THEN [session |-> session, result |-> RPair(0, FALSE)]
    ELSE LET graded == [session EXCEPT
                          !.answers = GradedAnswers(ex.questions, session.answers)]
             correct_answers == CorrectCount(ex.questions, session.answers)
             total_questions == Len(order)
         IN IF total_questions = 0
            THEN [session |-> graded, result |-> RRaise]
            ELSE LET score == ScorePercent(correct_answers, total_questions)
                     passed == score >= ex.passing_score
                 IN [session |-> [graded EXCEPT !.score = Some(score),
                                               !.passed = Some(passed)],
                     result |-> RPair(score, passed)]

calculate_score ==
    /\ IF ~HasSession
       THEN /\ UNCHANGED current_session
            /\ last' = Call("calculate_score", << >>, RPair(0, FALSE))
       ELSE LET r == CalculateScore(Session, exam, question_order)
            IN /\ current_session' = Some(r.session)
               /\ last' = Call("calculate_score", << >>, r.result)
    /\ UNCHANGED <<exam, question_order, now, store, vce_file_path>>

(***************************************************************************)
(* Finishing a session and the session files.                              *)
(***************************************************************************)

\* dataclasses.asdict(session): a dict of the fields, the answers under the
\* keys they have in the session.
asdict(session) == session

\* What json.load reads back from json.dump of an answers dict: every key is
\* written as its str, and of two items with one str the one written last is
\* kept. A dict holds str keys only when it was read from a file, so its int
\* keys were inserted after them.
JsonAnswers(answers) ==
    [k \in {StrKey(j[2]) : j \in DOMAIN answers} |->
       IF IntKey(k[2]) \in DOMAIN answers
       THEN answers[IntKey(k[2])]
       ELSE answers[k]]

\* The content of the file json.dump(asdict(session), f) writes, as json.load
\* returns it.
JsonRecord(session) == [asdict(session) EXCEPT !.answers = JsonAnswers(@)]

\* The session directory after the file of session_id was written.
Written(files, session_id, record) ==
    [k \in DOMAIN files \cup {session_id} |->
       IF k = session_id THEN record ELSE files[k]]

\* The session end_session leaves after scoring: closed at clock value t.
FinishSession(session, t) ==
    [session EXCEPT
       !.end_time = Some(t),
       !.total_time_spent = (t - session.start_time) \div TicksPerSecond,
       !.status = "completed"]

\* end_session; io_ok tells whether the session file can be opened for writing.
end_session(io_ok) ==
    /\ IF ~HasSession
       THEN /\ last' = Call("end_session", <<io_ok>>, REmpty)
            /\ UNCHANGED <<current_session, store>>
       ELSE LET r == CalculateScore(Session, exam, question_order)
                finished == FinishSession(r.session, now)
            IN IF r.result.kind = "ZeroDivisionError"
               THEN /\ current_session' = Some(r.session)
                    /\ last' = Call("end_session", <<io_ok>>, RRaise)
                    /\ UNCHANGED store
               ELSE /\ current_session' = Some(finished)
                    /\ IF io_ok
                       THEN /\ store' = Written(store, finished.session_id,
                                                JsonRecord(finished))
                            /\ last' = Call("end_session", <<io_ok>>,
                                            RDict(asdict(finished)))
                       ELSE /\ last' = Call("end_session", <<io_ok>>, ROSError)
                            /\ UNCHANGED store
    /\ UNCHANGED <<exam, question_order, now, vce_file_path>>

\* round((answered / total) * 100, 1) in tenths of a percent. round() goes to
\* the nearest tenth; a tie needs 2000 * answered / total to be an odd integer,
\* which no total below 16 gives.
Percentage(answered, total) == (2000 * answered + total) \div (2 * total)

\* What show_progress returns for a session.
ShowProgress(session, order) ==
    IF DOMAIN session.answers = {}
    THEN REmpty
    ELSE IF Len(order) = 0
         THEN RRaise
         ELSE IF \E k \in DOMAIN session.answers : k[1] = "str"
              THEN RAttributeError
              ELSE RDict([answered |-> Cardinality(DOMAIN session.answers),
                          total |-> Len(order),
                          percentage |-> Percentage(Cardinality(DOMAIN session.answers),
                                                    Len(order)),
                          marked |-> Cardinality({k \in DOMAIN session.answers :
                                                    session.answers[k].is_marked}),
                          current_question |-> session.current_question])

show_progress ==
    /\ last' = Call("show_progress", << >>,
                    IF ~HasSession THEN REmpty ELSE ShowProgress(Session, question_order))
    /\ UNCHANGED <<exam, question_order, current_session, now, store, vce_file_path>>

\* ExamSession(**session_data) of ExamPlayer.review_session: the dict of the
\* file becomes the session as it is, str keys and all.
review_session(session_id) ==
    /\ IF session_id \notin DOMAIN store
       THEN /\ last' = Call("review_session", <<session_id>>, RBool(FALSE))
            /\ UNCHANGED current_session
       ELSE /\ last' = Call("review_session", <<session_id>>, RBool(TRUE))
            /\ current_session' = Some([store[session_id] EXCEPT !.status = "reviewed"])
    /\ UNCHANGED <<exam, question_order, now, store, vce_file_path>>

\* A _dict_to_session that keeps the keys json.load returns.
DictToSessionRaw(data) == data

\* SessionManager._dict_to_session: the keys of the answers go through int().
DictToSession(data) ==
    [data EXCEPT !.answers =
       [k \in {IntKey(j[2]) : j \in DOMAIN data.answers} |->
          data.answers[StrKey(k[2])]]]

\* SessionManager.load_session: None when there is no file.
LoadSession(files, session_id) ==
    IF session_id \in DOMAIN files
    THEN Some(DictToSession(files[session_id]))
    ELSE None

\* SessionManager.save_session(session) on the session of the player; the
\* timestamp is updated before the file is opened.
save_session(io_ok) ==
    /\ HasSession
    /\ LET session == [Session EXCEPT !.end_time = Some(now)]
       IN /\ current_session' = Some(session)
          /\ last' = Call("save_session", <<io_ok>>, RBool(io_ok))
          /\ IF io_ok
             THEN store' = Written(store, session.session_id, JsonRecord(session))
             ELSE UNCHANGED store
    /\ UNCHANGED <<exam, question_order, now, vce_file_path>>

load_session(session_id) ==
    /\ last' = Call("load_session", <<session_id>>, ROptional(LoadSession(store, session_id)))
    /\ UNCHANGED <<exam, question_order, current_session, now, store, vce_file_path>>

\* The elements of a set of integers in ascending order.
Ascending(S) ==
    CHOOSE s \in [1..Cardinality(S) -> S] : \A i, j \in 1..Cardinality(S) : i < j => s[i] < s[j]

\* The Question MainWindow.review_session makes up for an answered position.
DummyQuestion(q_num) ==
    [id |-> q_num, option_count |-> 4, correct_answers |-> <<0>>]

\* The Exam MainWindow.review_session makes up from the answers of a session:
\* one question per answered position (listed here in ascending order; the
\* scoring does not depend on the order).
DummyExam(session) ==
    LET q_nums == Ascending({k[2] : k \in DOMAIN session.answers})
    IN [questions |-> [i \in 1..Len(q_nums) |-> DummyQuestion(q_nums[i])],
        total_questions |-> Len(q_nums),
        passing_score |-> 70]

\* ResultsViewerWidget.__init__: "if not self.session.score" holds for None
\* and for 0, and then the score is calculated again.
ResultsViewer(session, ex, order) ==
    IF session.score = None \/ session.score = Some(0)
    THEN CalculateScore(session, ex, order).session
    ELSE session

\* MainWindow.review_session of a session offered for review (the dialogs
\* offer the records with status "completed"), up to the results viewer.
MainWindow_review_session(session_id) ==
    /\ session_id \in DOMAIN store
    /\ store[session_id].status = "completed"
    /\ LET session == LoadSession(store, session_id)[1]
           dummy_exam == DummyExam(session)
           order == Range(Len(dummy_exam.questions))
       IN /\ exam' = dummy_exam
          /\ question_order' = order
          /\ current_session' = Some(ResultsViewer(session, dummy_exam, order))
    /\ last' = Call("MainWindow.review_session", <<session_id>>, RNone)
    /\ vce_file_path' = None
    /\ UNCHANGED <<now, store>>

\* The clock advances between calls.
Tick ==
    /\ now < MaxClock
    /\ now' = now + 1
    /\ last' = Call("tick", << >>, RNone)
    /\ UNCHANGED <<exam, question_order, current_session, store, vce_file_path>>

\* The arguments the callers pass. Answers are recorded for the positions
\* 1..MaxQuestions: with exams of 0..MaxQuestions questions and a question limit
\* these are positions inside the display order, past its end, and past the
\* end of the exam.
Positions == 0..(MaxQuestions + 1)
AnswerPositions == 1..MaxQuestions
Limits == 0..(MaxQuestions + 1)
Selections == {<<0>>, <<1, 0>>, <<option_count>>}

Next ==
    \/ \E randomize \in BOOLEAN, max_questions \in Limits :
         start_new_session(randomize, max_questions)
    \/ \E question_num \in AnswerPositions, answer_indices \in Selections :
         select_answer(question_num, answer_indices)
    \/ \E question_num \in AnswerPositions : mark_question(question_num)
    \/ next_question
    \/ previous_question
    \/ \E question_num \in Positions : jump_to_question(question_num)
    \/ calculate_score

Spec == Init /\ [][Next]_vars

(***************************************************************************)
(* The claims.                                                             *)
(***************************************************************************)

\* The answers of the active session and the number of display positions.
Answers == Session.answers
TotalQuestions == Len(question_order)

\* C1: for every active session the current position is a display position,
\* 1 <= current_question <= total_questions.
C1_PositionInRange ==
    HasSession =>
        /\ 1 <= Session.current_question
        /\ Session.current_question <= TotalQuestions

\* C2: next_question at the last display position and previous_question at
\* position 1 return the position they were called at and leave the session as
\* it was: no wrap-around, no error.
C2_BoundaryNoOp ==
    [][/\ (/\ HasSession
           /\ last'.op = "next_question"
           /\ Session.current_question = TotalQuestions)
          => (/\ current_session' = current_session
              /\ last'.result = RInt(Session.current_question))
       /\ (/\ HasSession
           /\ last'.op = "previous_question"
           /\ Session.current_question = 1)
          => (/\ current_session' = current_session
              /\ last'.result = RInt(1))]_vars

\* A session of one display position: next_question was called at the last
\* position, returned it and stayed there.
C2_Witness ==
    /\ HasSession
    /\ last.op = "next_question"
    /\ TotalQuestions = 1
    /\ Session.current_question = 1
    /\ last.result = RInt(1)

\* C3: with an active session jump_to_question(p) returns False and changes
\* nothing when p < 1 or p > total_questions; otherwise it returns True and
\* current_question becomes p.
C3_Jump ==
    [][(HasSession /\ last'.op = "jump_to_question") =>
         LET p == last'.args[1]
         IN IF p < 1 \/ p > TotalQuestions
            THEN /\ last'.result = RBool(FALSE)
                 /\ UNCHANGED <<current_session, question_order, exam>>
            ELSE /\ last'.result = RBool(TRUE)
                 /\ current_session'[1].current_question = p]_vars

\* jump_to_question(total_questions + 1) was refused in a session that has
\* display positions.
C3_Witness ==
    /\ HasSession
    /\ TotalQuestions >= 1
    /\ last.op = "jump_to_question"
    /\ last.args[1] = TotalQuestions + 1
    /\ last.result = RBool(FALSE)

\* C4: select_answer(p, T) on a position that already has an AnswerRecord
\* leaves exactly one record for p, its selections are T, and its is_marked
\* flag is the one it had before the call.
C4_Overwrite ==
    [][(/\ HasSession
        /\ last'.op = "select_answer"
        /\ IntKey(last'.args[1]) \in DOMAIN Answers) =>
         LET p == last'.args[1]
             T == last'.args[2]
             after == current_session'[1].answers
         IN /\ DOMAIN after = DOMAIN Answers
            /\ Cardinality({k \in DOMAIN after : k[2] = p}) = 1
            /\ after[IntKey(p)].selected_answers = T
            /\ after[IntKey(p)].is_marked = Answers[IntKey(p)].is_marked]_vars

\* Position 1 was answered <<0>>, scored correct and marked, and then answered
\* again with <<1, 0>>: the record holds the new selection, is still marked,
\* and still carries the is_correct of the selection it replaced.
C4_Witness ==
    /\ HasSession
    /\ last.op = "select_answer"
    /\ last.args = <<1, <<1, 0>>>>
    /\ IntKey(1) \in DOMAIN Answers
    /\ Answers[IntKey(1)].selected_answers = <<1, 0>>
    /\ Answers[IntKey(1)].is_marked
    /\ Answers[IntKey(1)].is_correct = Some(TRUE)

\* The number of answer options of the question shown at display position p.
OptionCountAt(p) == exam.questions[question_order[p] + 1].option_count

\* C5: select_answer(p, S) is rejected and leaves the session unchanged when p
\* is not a display position or some index of S is not an option of the
\* question at p.
C5_Rejects ==
    [][(HasSession /\ last'.op = "select_answer") =>
         LET p == last'.args[1]
             S == last'.args[2]
             invalid ==
                 \/ p < 1
                 \/ p > TotalQuestions
                 \/ \E i \in DOMAIN S : S[i] < 0 \/ S[i] >= OptionCountAt(p)
         IN invalid => (/\ current_session' = current_session
                        /\ last'.result = RBool(FALSE))]_vars

\* C6: mark_question(p) on a position without AnswerRecord returns False and
\* changes nothing; on a position with a record it returns True and the only
\* change is that record's is_marked, which is true afterwards.
C6_Mark ==
    [][(HasSession /\ last'.op = "mark_question") =>
         LET k == IntKey(last'.args[1])
         IN IF k \notin DOMAIN Answers
            THEN /\ last'.result = RBool(FALSE)
                 /\ UNCHANGED <<current_session, question_order, exam>>
            ELSE /\ last'.result = RBool(TRUE)
                 /\ current_session' =
                      Some([Session EXCEPT !.answers[k].is_marked = TRUE])
                 /\ UNCHANGED <<question_order, exam>>]_vars

\* mark_question was refused for a position without a record while other
\* positions of the session are answered; no record was created for it.
C6_Witness ==
    /\ HasSession
    /\ last.op = "mark_question"
    /\ last.result = RBool(FALSE)
    /\ DOMAIN Answers # {}
    /\ IntKey(last.args[1]) \notin DOMAIN Answers

\* C7: a second calculate_score right after a first one has the outcome of the
\* first (the same (score, passed), or the same error) and leaves the session
\* the first one left: the same is_correct flags, score and passed.
C7_Idempotent ==
    HasSession =>
        LET first == CalculateScore(Session, exam, question_order)
            second == CalculateScore(first.session, exam, question_order)
        IN /\ second.result = first.result
           /\ second.session = first.session

\* calculate_score has just graded a session of two positions, one answered
\* correctly and one wrongly, and returned (50, False).
C7_Witness ==
    /\ HasSession
    /\ last.op = "calculate_score"
    /\ last.result = RPair(50, FALSE)
    /\ Session.score = Some(50)
    /\ \E k \in DOMAIN Answers : Answers[k].is_correct = Some(TRUE)
    /\ \E k \in DOMAIN Answers : Answers[k].is_correct = Some(FALSE)

\* The display positions whose record is flagged correct.
CorrectPositions ==
    {p \in 1..TotalQuestions :
       /\ IntKey(p) \in DOMAIN Answers
       /\ Answers[IntKey(p)].is_correct = Some(TRUE)}

\* C8: after calculate_score the record at a display position p is flagged
\* correct exactly when its selected set is the correct set of the question
\* question_order[p-1], and the score counts the correct records at display
\* positions only.
C8_Correctness ==
    (/\ HasSession
     /\ last.op = "calculate_score"
     /\ last.result.kind = "pair"
     /\ DOMAIN Answers # {}) =>
        /\ \A p \in 1..TotalQuestions :
             IntKey(p) \in DOMAIN Answers =>
               Answers[IntKey(p)].is_correct =
                 Some(ToSet(Answers[IntKey(p)].selected_answers)
                        = ToSet(exam.questions[question_order[p] + 1].correct_answers))
        /\ last.result.n = ScorePercent(Cardinality(CorrectPositions), TotalQuestions)

\* C10: a score that is set is an integer in 0..100 and at most
\* 100 * answered / total_questions.
C10_ScoreBound ==
    (HasSession /\ Session.score # None) =>
        LET score == Session.score[1]
            answered == Cardinality(DOMAIN Answers)
        IN /\ score \in 0..100
           /\ score * TotalQuestions <= 100 * answered

(***************************************************************************)
(* Scoring alone, over longer exams: sessions over all questions, answered *)
(* right or wrong, and scored.                                             *)
(***************************************************************************)

\* Largest number of questions of an exam of the scoring specification.
MaxScoredQuestions == 3

InitScore ==
    /\ \E n \in 1..MaxScoredQuestions :
         /\ vce_file_path = Some(n)
         /\ exam = Exam(n)
    /\ question_order = << >>
    /\ current_session = None
    /\ last = Call("__init__", << >>, RInt(0))
    /\ now = 0
    /\ store = << >>

NextScore ==
    \/ start_new_session(FALSE, 0)
    \/ \E question_num \in 1..MaxScoredQuestions, answer_indices \in {<<0>>, <<1, 0>>} :
         select_answer(question_num, answer_indices)
    \/ calculate_score

SpecScore == InitScore /\ [][NextScore]_vars

\* C9: calculate_score returns 100 * correct_count / total_questions rounded to
\* the nearest integer, and passed = (score >= passing_score).
C9_Rounded ==
    (/\ HasSession
     /\ last.op = "calculate_score"
     /\ last.result.kind = "pair"
     /\ DOMAIN Answers # {}) =>
        LET score == last.result.n
            exact == 100 * CorrectCount(exam.questions, Answers)
            error == exact - score * TotalQuestions
        IN /\ 2 * error <= TotalQuestions
           /\ -2 * error <= TotalQuestions
           /\ last.result.b = (score >= exam.passing_score)

(***************************************************************************)
(* A session from its start to its end: the controller with end_session    *)
(* and show_progress, at one value of the clock.                           *)
(***************************************************************************)

NextEnd ==
    \/ start_new_session(FALSE, 0)
    \/ \E question_num \in AnswerPositions : select_answer(question_num, <<0>>)
    \/ mark_question(1)
    \/ next_question
    \/ previous_question
    \/ jump_to_question(1)
    \/ calculate_score
    \/ \E io_ok \in BOOLEAN : end_session(io_ok)
    \/ show_progress

SpecEnd == Init /\ [][NextEnd]_vars

(***************************************************************************)
(* The life of a session with its file: started, answered, finished,       *)
(* saved, loaded and reviewed, while the clock advances.                   *)
(***************************************************************************)

\* The session ids a caller can ask for: the seconds the clock reaches.
SessionIds == 0..Seconds(MaxClock)

NextStore ==
    \/ Tick
    \/ start_new_session(FALSE, 0)
    \/ \E question_num \in AnswerPositions : select_answer(question_num, <<0>>)
    \/ \E io_ok \in BOOLEAN : end_session(io_ok)
    \/ \E session_id \in SessionIds : review_session(session_id)
    \/ \E io_ok \in BOOLEAN : save_session(io_ok)
    \/ \E session_id \in SessionIds : MainWindow_review_session(session_id)

SpecStore == Init /\ [][NextStore]_vars

(***************************************************************************)
(* Saving and loading: sessions answered, marked, finished and reviewed    *)
(* are saved by the session manager and loaded back.                       *)
(***************************************************************************)

NextSave ==
    \/ start_new_session(FALSE, 0)
    \/ \E question_num \in AnswerPositions : select_answer(question_num, <<0>>)
    \/ mark_question(1)
    \/ \E io_ok \in BOOLEAN : end_session(io_ok)
    \/ \E session_id \in SessionIds : review_session(session_id)
    \/ \E io_ok \in BOOLEAN : save_session(io_ok)
    \/ \E session_id \in SessionIds : load_session(session_id)

SpecSave == Init /\ [][NextSave]_vars

(***************************************************************************)
(* The claims on finishing, storing and reviewing a session.               *)
(***************************************************************************)

\* C11: after end_session on an active session, whatever was answered
\* (nothing included), the session has status completed, its end_time is set,
\* and score and passed are both computed (not null). Stated for sessions
\* over at least one question.
C11_Finalized ==
    [][(HasSession /\ TotalQuestions >= 1 /\ last'.op = "end_session") =>
         LET after == current_session'[1]
         IN /\ after.status = "completed"
            /\ after.end_time # None
            /\ after.score # None
            /\ after.passed # None]_vars

\* C12: end_session on an active session, with a session file that can be
\* written, writes one record under the session's session_id, and the record
\* is field for field the snapshot end_session returns; no other record
\* changes.
C12_Stored ==
    [][(HasSession /\ last'.op = "end_session" /\ last'.args[1]) =>
         LET id == Session.session_id
         IN /\ last'.result.kind = "dict"
            /\ DOMAIN store' = DOMAIN store \cup {id}
            /\ store'[id] = JsonRecord(last'.result.n)
            /\ \A k \in DOMAIN store \ {id} : store'[k] = store[k]]_vars

\* C13: start_new_session(randomize, limit) on an exam of n >= 1 questions
\* leaves a session with status in_progress, current_question 1 and no
\* answers; the display order is 0..m-1 ascending, with m = limit if
\* 0 < limit < n and m = n otherwise, whatever the randomize flag; and
\* total_questions becomes m.
C13_Start ==
    [][(last'.op = "start_new_session" /\ Len(exam.questions) >= 1) =>
         LET n == Len(exam.questions)
             limit == last'.args[2]
             m == IF 0 < limit /\ limit < n THEN limit ELSE n
             session == current_session'[1]
         IN /\ session.status = "in_progress"
            /\ session.current_question = 1
            /\ DOMAIN session.answers = {}
            /\ Len(question_order') = m
            /\ \A i \in 1..m : question_order'[i] = i - 1
            /\ exam'.total_questions = m]_vars

\* start_new_session(True, 1) on an exam of two questions: the session shows
\* the first question only.
C13_Witness ==
    /\ last.op = "start_new_session"
    /\ last.args = <<TRUE, 1>>
    /\ Len(exam.questions) = 2
    /\ question_order = <<0>>
    /\ exam.total_questions = 1
    /\ HasSession
    /\ DOMAIN Answers = {}

\* C14: start_new_session on an exam without questions fails with an
\* EmptyExam error and creates no session.
C14_EmptyExam ==
    [][(last'.op = "start_new_session" /\ Len(exam.questions) = 0) =>
         /\ last'.result.kind = "EmptyExam"
         /\ current_session' = current_session]_vars

\* The place of a status in the order in_progress -> completed -> reviewed.
StatusRank(status) ==
    CASE status = "in_progress" -> 1
      [] status = "completed" -> 2
      [] status = "reviewed" -> 3

\* C15: in every step the status of a session, in memory and in its file,
\* stays or moves forward in the order in_progress -> completed -> reviewed,
\* and a session becomes reviewed only by a load for review of a completed
\* record. A step that starts a new session is not a step of the old one.
C15_StatusForward ==
    [][/\ (/\ HasSession
           /\ last'.op # "start_new_session"
           /\ current_session'[1].session_id = Session.session_id)
          => StatusRank(current_session'[1].status) >= StatusRank(Session.status)
       /\ \A id \in DOMAIN store :
            StatusRank(store'[id].status) >= StatusRank(store[id].status)
       /\ (/\ current_session' # None
           /\ current_session'[1].status = "reviewed"
           /\ (HasSession => Session.status # "reviewed"))
          => (/\ last'.op \in {"review_session", "MainWindow.review_session"}
              /\ store[last'.args[1]].status = "completed")]_vars

\* C16: loading a completed session for review sets its status to reviewed and
\* computes nothing: score, passed and the is_correct of every answered
\* position are the stored ones.
C16_ReviewKeepsScore ==
    [][(/\ last'.op \in {"review_session", "MainWindow.review_session"}
        /\ last'.args[1] \in DOMAIN store
        /\ store[last'.args[1]].status = "completed") =>
         LET stored == store[last'.args[1]]
             loaded == current_session'[1]
         IN /\ loaded.status = "reviewed"
            /\ loaded.score = stored.score
            /\ loaded.passed = stored.passed
            /\ \A k \in DOMAIN stored.answers :
                 \E j \in DOMAIN loaded.answers :
                    /\ j[2] = k[2]
                    /\ loaded.answers[j].is_correct = stored.answers[k].is_correct]_vars

C18_SaveFailure ==
    [][(/\ HasSession
        /\ last'.op \in {"save_session", "end_session"}
        /\ ~last'.args[1]
        /\ last'.result.kind # "ZeroDivisionError") =>
         /\ last'.result = RBool(FALSE)
         /\ last'.op = "save_session" => current_session' = current_session]_vars

\* What each controller operation returns when no session is active.
Sentinel(op) ==
    CASE op \in {"select_answer", "mark_question", "jump_to_question"} -> RBool(FALSE)
      [] op \in {"next_question", "previous_question"} -> RInt(1)
      [] op = "calculate_score" -> RPair(0, FALSE)
      [] op \in {"end_session", "show_progress"} -> REmpty

\* C19: with no active session every controller operation returns its
\* sentinel (false, 1, (0, false), an empty result) without raising, changes no
\* state and writes nothing to the store.
C19_NoSession ==
    [][(/\ ~HasSession
        /\ last'.op \in {"select_answer", "mark_question", "next_question",
                         "previous_question", "jump_to_question",
                         "calculate_score", "end_session", "show_progress"}) =>
         /\ last'.result = Sentinel(last'.op)
         /\ UNCHANGED <<exam, question_order, current_session, now, store,
                      vce_file_path>>]_vars

\* end_session was called on a player without session: it returned the empty
\* result, there is still no session and no file.
C19_Witness ==
    /\ ~HasSession
    /\ last.op = "end_session"
    /\ last.result = REmpty
    /\ DOMAIN store = {}
    /\ Len(exam.questions) >= 1

\* C20: for an active session show_progress returns answered = the number of
\* AnswerRecords, total = total_questions, marked = the number of marked
\* records, percentage = 100 * answered / total rounded to one decimal (held
\* in tenths here) and the current position, also when nothing is answered
\* yet. Stated for sessions over at least one question.
C20_Progress ==
    [][(HasSession /\ TotalQuestions >= 1 /\ last'.op = "show_progress") =>
         LET r == last'.result
             answered == Cardinality(DOMAIN Answers)
             error == 1000 * answered - r.n.percentage * TotalQuestions
         IN /\ r.kind = "dict"
            /\ r.n.answered = answered
            /\ r.n.total = TotalQuestions
            /\ r.n.marked = Cardinality({k \in DOMAIN Answers : Answers[k].is_marked})
            /\ r.n.current_question = Session.current_question
            /\ 2 * error <= TotalQuestions
            /\ -2 * error <= TotalQuestions]_vars

(***************************************************************************)
(* The claims on session identifiers, the session directory, the question *)
(* source and the frame of each operation.                                 *)
(***************************************************************************)

\* C21: session identifiers are unique and immutable: a start_new_session
\* that follows another one yields a different session_id, one that no record
\* of the store carries, whatever the clock values of the two calls; and no
\* operation on a session changes its session_id.
C21_UniqueIds ==
    [][/\ (HasSession /\ last'.op = "start_new_session") =>
            /\ Session'.session_id # Session.session_id
            /\ Session'.session_id \notin DOMAIN store
       /\ (/\ HasSession
           /\ last'.op \in {"select_answer", "calculate_score", "end_session",
                            "save_session"}) =>
            /\ HasSession'
            /\ Session'.session_id = Session.session_id]_vars

\* C29: after end_session wrote a session and ExamPlayer.review_session
\* loaded the same session_id, every display position p that had an
\* AnswerRecord is found in the loaded session's answers under the integer
\* key p, with the same selected indices, is_correct and is_marked.
C29_ReviewKeys ==
    [][(/\ last'.op = "review_session"
        /\ last'.result = RBool(TRUE)
        /\ store[last'.args[1]].status = "completed") =>
         LET written == store[last'.args[1]].answers
             loaded == Session'.answers
         IN \A k \in DOMAIN written :
              /\ IntKey(k[2]) \in DOMAIN loaded
              /\ loaded[IntKey(k[2])].selected_answers = written[k].selected_answers
              /\ loaded[IntKey(k[2])].is_correct = written[k].is_correct
              /\ loaded[IntKey(k[2])].is_marked = written[k].is_marked]_vars

\* C25: with an active session no controller operation raises: select_answer,
\* mark_question, next_question, previous_question, jump_to_question,
\* calculate_score, end_session with a writable file and show_progress return
\* normally in every reachable state, a session over zero questions included.
C25_NoCrash ==
    [][(/\ HasSession
        /\ last'.op \in {"select_answer", "mark_question", "next_question",
                         "previous_question", "jump_to_question",
                         "calculate_score", "show_progress"}
           \/ (last'.op = "end_session" /\ last'.args[1])) =>
         last'.result.kind \notin {RRaise.kind, RAttributeError.kind,
                                   ROSError.kind}]_vars

\* C28: is_correct is null until scoring runs: start_new_session leaves a
\* session without AnswerRecords, and select_answer, mark_question,
\* next_question, previous_question and jump_to_question never set the field:
\* a new record has is_correct null and an existing record keeps its value.
\* So every record of a session is ungraded before its first calculate_score
\* or end_session.
C28_UngradedUntilScored ==
    [][/\ last'.op = "start_new_session" => DOMAIN Answers' = {}
       /\ (/\ HasSession
           /\ last'.op \in {"select_answer", "mark_question", "next_question",
                            "previous_question", "jump_to_question"}) =>
            \A k \in DOMAIN Answers' :
               Answers'[k].is_correct =
                  IF k \in DOMAIN Answers THEN Answers[k].is_correct ELSE None]_vars

\* A session that was never scored holds an answered and marked record, still
\* ungraded, after a jump.
C28_Witness ==
    /\ HasSession
    /\ Session.score = None
    /\ last.op = "jump_to_question"
    /\ last.result = RBool(TRUE)
    /\ IntKey(1) \in DOMAIN Answers
    /\ Answers[IntKey(1)].is_marked
    /\ Answers[IntKey(1)].is_correct = None

\* C30: the frame of the controller: next_question, previous_question and
\* jump_to_question change at most current_question; select_answer and
\* mark_question change at most the AnswerRecord of the given position, and
\* leave current_question, status, score, passed, session_id, every other
\* position's record and the display order as they are.
C30_Frame ==
    [][/\ (/\ HasSession
           /\ last'.op \in {"next_question", "previous_question",
                            "jump_to_question"}) =>
            /\ HasSession'
            /\ Session' = [Session EXCEPT !.current_question = Session'.current_question]
            /\ UNCHANGED <<exam, question_order, store>>
       /\ (HasSession /\ last'.op \in {"select_answer", "mark_question"}) =>
            /\ HasSession'
            /\ Session' = [Session EXCEPT !.answers = Answers']
            /\ \A k \in (DOMAIN Answers \cup DOMAIN Answers') \ {IntKey(last'.args[1])} :
                 /\ k \in DOMAIN Answers
                 /\ k \in DOMAIN Answers'
                 /\ Answers'[k] = Answers[k]
            /\ UNCHANGED <<exam, question_order, store>>]_vars

\* Position 1 of two answered positions was marked while the session stood at
\* position 2: the other record and the position are as before.
C30_Witness ==
    /\ HasSession
    /\ last = Call("mark_question", <<1>>, RBool(TRUE))
    /\ Session.current_question = 2
    /\ IntKey(2) \in DOMAIN Answers
    /\ ~Answers[IntKey(2)].is_marked
    /\ Answers[IntKey(1)].is_marked

(***************************************************************************)
(* The session directory as the session manager shows it: listed, filtered *)
(* and deleted, with sessions started in different seconds.                *)
(***************************************************************************)

\* The whole seconds a session is started in.
MaxSeconds == 1

RList(s) == [kind |-> "list", b |-> FALSE, n |-> s]

\* The session_info list_sessions extracts from the data of one file.
SessionInfo(data) ==
    [session_id |-> data.session_id,
     start_time |-> data.start_time,
     status |-> data.status,
     score |-> data.score,
     total_questions |-> Cardinality(DOMAIN data.answers)]

\* The lists with one element per member of S.
Listings(S) ==
    {s \in [1..Cardinality(S) -> S] : \A i, j \in DOMAIN s : i # j => s[i] # s[j]}

\* A list_sessions that sorts without reverse=True.
ListSessionsOldestFirst(files) ==
    {s \in Listings({SessionInfo(files[k]) : k \in DOMAIN files}) :
       \A i, j \in DOMAIN s : i < j => s[i].start_time <= s[j].start_time}

\* SessionManager.list_sessions: the files in the order glob yields them, then
\* sessions.sort(key=start_time, reverse=True). The start times are isoformat
\* strings of one clock, which compare as the clock values do. The sort is
\* stable, so equal keys stay in glob order, which is any order.
ListSessions(files) ==
    {s \in Listings({SessionInfo(files[k]) : k \in DOMAIN files}) :
       \A i, j \in DOMAIN s : i < j => s[i].start_time >= s[j].start_time}

InProgress(s) == s.status = "in_progress"
Completed(s) == s.status = "completed"

list_sessions ==
    /\ \E sessions \in ListSessions(store) :
         last' = Call("list_sessions", << >>, RList(sessions))
    /\ UNCHANGED <<exam, question_order, current_session, now, store, vce_file_path>>

get_resumable_sessions ==
    /\ \E all_sessions \in ListSessions(store) :
         last' = Call("get_resumable_sessions", << >>,
                      RList(SelectSeq(all_sessions, InProgress)))
    /\ UNCHANGED <<exam, question_order, current_session, now, store, vce_file_path>>

get_completed_sessions ==
    /\ \E all_sessions \in ListSessions(store) :
         last' = Call("get_completed_sessions", << >>,
                      RList(SelectSeq(all_sessions, Completed)))
    /\ UNCHANGED <<exam, question_order, current_session, now, store, vce_file_path>>

\* An unlink that empties the directory.
UnlinkedAll(files, session_id) == << >>

\* The directory after session_file.unlink().
Unlinked(files, session_id) ==
    [k \in DOMAIN files \ {session_id} |-> files[k]]

\* SessionManager.delete_session.
delete_session(session_id) ==
    /\ IF session_id \in DOMAIN store
       THEN /\ store' = Unlinked(store, session_id)
            /\ last' = Call("delete_session", <<session_id>>, RBool(TRUE))
       ELSE /\ UNCHANGED store
            /\ last' = Call("delete_session", <<session_id>>, RBool(FALSE))
    /\ UNCHANGED <<exam, question_order, current_session, now, vce_file_path>>

\* A whole second passes between two calls.
TickSecond ==
    /\ Seconds(now) < MaxSeconds
    /\ now' = now + TicksPerSecond
    /\ last' = Call("tick", << >>, RNone)
    /\ UNCHANGED <<exam, question_order, current_session, store, vce_file_path>>

\* The session ids of the seconds the clock reaches.
ListedIds == 0..MaxSeconds

NextList ==
    \/ TickSecond
    \/ start_new_session(FALSE, 0)
    \/ select_answer(1, <<0>>)
    \/ end_session(TRUE)
    \/ save_session(TRUE)
    \/ list_sessions
    \/ get_resumable_sessions
    \/ get_completed_sessions
    \/ \E session_id \in ListedIds : delete_session(session_id)
    \/ \E session_id \in ListedIds : load_session(session_id)

SpecList == Init /\ [][NextList]_vars

\* Whether the list holds exactly one summary for each of the kept records of
\* the files, newest start first.
NewestFirstOf(list, files, kept) ==
    /\ Len(list) = Cardinality(kept)
    /\ \A k \in kept : \E i \in DOMAIN list :
         /\ list[i].session_id = k
         /\ list[i].start_time = files[k].start_time
         /\ list[i].status = files[k].status
         /\ list[i].score = files[k].score
    /\ \A i, j \in DOMAIN list : i < j => list[i].start_time >= list[j].start_time

\* C22: list_sessions returns one summary per stored record, newest start
\* first; get_resumable_sessions returns exactly the summaries with status
\* in_progress and get_completed_sessions exactly those with status
\* completed, in the same newest-first order.
C22_Listing ==
    [][/\ last'.op = "list_sessions" =>
            NewestFirstOf(last'.result.n, store, DOMAIN store)
       /\ last'.op = "get_resumable_sessions" =>
            NewestFirstOf(last'.result.n, store,
                          {k \in DOMAIN store : InProgress(store[k])})
       /\ last'.op = "get_completed_sessions" =>
            NewestFirstOf(last'.result.n, store,
                          {k \in DOMAIN store : Completed(store[k])})]_vars

\* Two records were listed: the session started in the later second, still in
\* progress, comes before the completed one of the earlier second.
C22_Witness ==
    /\ last.op = "list_sessions"
    /\ Len(last.result.n) = 2
    /\ last.result.n[1].status = "in_progress"
    /\ last.result.n[2].status = "completed"
    /\ last.result.n[1].start_time > last.result.n[2].start_time

auto_save(io_ok) ==
    /\ IF HasSession /\ Session.status = "in_progress"
       THEN LET session == [Session EXCEPT !.end_time = Some(now)]
            IN /\ current_session' = Some(session)
               /\ IF io_ok
                  THEN store' = Written(store, session.session_id, JsonRecord(session))
                  ELSE UNCHANGED store
       ELSE UNCHANGED <<current_session, store>>
    /\ last' = Call("auto_save", <<io_ok>>, RNone)
    /\ UNCHANGED <<exam, question_order, now, vce_file_path>>

NextAuto ==
    \/ Tick
    \/ start_new_session(FALSE, 0)
    \/ \E question_num \in AnswerPositions : select_answer(question_num, <<0>>)
    \/ mark_question(1)
    \/ \E io_ok \in BOOLEAN : end_session(io_ok)
    \/ \E io_ok \in BOOLEAN : auto_save(io_ok)

SpecAuto == Init /\ [][NextAuto]_vars

\* C26: in every interleaving of auto-save ticks with the foreground
\* operations a write replaces the record of the session's id with the
\* complete snapshot of the session at that time and touches no other record,
\* and once end_session has written a record with status completed no later
\* auto-save tick changes that record.
C26_AutoSave ==
    [][last'.op = "auto_save" =>
         /\ \A k \in DOMAIN store :
              store[k].status = "completed" =>
                 k \in DOMAIN store' /\ store'[k] = store[k]
         /\ store' # store =>
              /\ HasSession'
              /\ store' = Written(store, Session'.session_id, JsonRecord(Session'))]_vars

(***************************************************************************)
(* Exam files opened and sessions resumed from the main window.            *)
(***************************************************************************)

\* MainWindow.load_exam_file: a new ExamPlayer for the file, then
\* start_new_session with the limit of the settings.
load_exam_file(file_path, max_questions) ==
    LET parsed == parse_vce_file(file_path)
    IN \E order \in StartOrders(FALSE, max_questions, Range(Len(parsed.questions))) :
        /\ vce_file_path' = Some(file_path)
        /\ question_order' = order
        /\ exam' = [parsed EXCEPT !.total_questions = Len(order)]
        /\ current_session' = Some(ExamSession(Seconds(now), now))
        /\ last' = Call("load_exam_file", <<file_path, max_questions>>, RNone)
        /\ UNCHANGED <<now, store>>

\* MainWindow.resume_session of a session offered for resuming (the dialog
\* offers the records with status "in_progress"): the session is loaded, a new
\* ExamPlayer is made for the file the user selects, and the session becomes
\* its current session.
MainWindow_resume_session(session_id, file_path) ==
    /\ session_id \in DOMAIN store
    /\ store[session_id].status = "in_progress"
    /\ vce_file_path' = Some(file_path)
    /\ exam' = parse_vce_file(file_path)
    /\ question_order' = << >>
    /\ current_session' = LoadSession(store, session_id)
    /\ last' = Call("MainWindow.resume_session", <<session_id, file_path>>, RNone)
    /\ UNCHANGED <<now, store>>

NextSource ==
    \/ Tick
    \/ \E file_path \in FilePaths, max_questions \in {0, 1} :
         load_exam_file(file_path, max_questions)
    \/ select_answer(1, <<0>>)
    \/ next_question
    \/ calculate_score
    \/ \E io_ok \in BOOLEAN : end_session(io_ok)
    \/ \E io_ok \in BOOLEAN : auto_save(io_ok)
    \/ \E session_id \in SessionIds, file_path \in FilePaths :
         MainWindow_resume_session(session_id, file_path)

SpecSource == Init /\ [][NextSource]_vars

C27_FixedOrder ==
    [][/\ (/\ HasSession
           /\ last'.op \in {"select_answer", "next_question", "calculate_score",
                            "end_session", "auto_save"}) =>
            /\ question_order' = question_order
            /\ exam'.total_questions = exam.total_questions
       /\ (/\ HasSession
           /\ last'.op = "MainWindow.resume_session"
           /\ Session.session_id = last'.args[1]
           /\ Session.status = "in_progress"
           /\ vce_file_path = Some(last'.args[2])) =>
            /\ question_order' = question_order
            /\ exam'.total_questions = exam.total_questions]_vars

====
